---------------------------- MODULE Spec2Model ----------------------------
(***************************************************************************)
(* Model of GlobalStudentImmigration.py: a Streamlit session that answers   *)
(* questions about a student-migration table.  A session is a sequence of   *)
(* script runs over st.session_state; every widget interaction starts a     *)
(* run from the top of the script.  A text that the code inspects          *)
(* character by character (lower, strip, concatenation) is the sequence of  *)
(* its Unicode code points; keys, speakers and tags are plain strings.      *)
(* A run is cut into steps where the script waits (the connection to the    *)
(* database, time.sleep, the calls of the query chain and of the model); a  *)
(* widget event that arrives during the connection or a time.sleep makes    *)
(* Streamlit end the run at its next command.                               *)
(***************************************************************************)
EXTENDS Integers, Sequences, FiniteSets, TLC

VARIABLES
    environ,        \* os.environ, the part the script reads
    db_reachable,   \* whether the MySQL server at localhost:3306 accepts connections
    session_state,  \* st.session_state: a function from the keys present to their values
    form_rendered,  \* the chat form is on the page: the latest script run that reached the
                    \* gate got past it
    retry_rendered, \* the "Retry Connection" button is on the page: that run stopped at the gate
    pc,             \* where the script thread is: "idle" between runs, in one of the calls
                    \* of the pipeline, in the connection to the database, or in one of
                    \* the script's time.sleep waits
    frame,          \* locals of the process_question call of the latest interaction
    returned,       \* what that call returned: "none" while there is none, "raised" when
                    \* an exception left it
    emitted,        \* the status messages the latest interaction sent to the page
    trace,          \* the pipeline events of that call, in order
    origin,         \* for each chat_history entry, the question whose call appended it
    init_calls,     \* how often the script run of the latest interaction has called
                    \* initialize_database
    last_event      \* the interaction or step that produced this state

vars == <<environ, db_reachable, session_state, form_rendered, retry_rendered, pc, frame, returned,
          emitted, trace, origin, init_calls, last_event>>

-----------------------------------------------------------------------------
(* Bounds of the model *)

\* a question is accepted for processing while chat_history is shorter than this
MaxHistory == 2
\* how many of the sample-question buttons the user clicks on
MaxSample == 1

-----------------------------------------------------------------------------
(* Text *)

\* the code points str.strip() removes when called with no argument
Whitespace ==
    {9, 10, 11, 12, 13, 28, 29, 30, 31, 32, 133, 160, 5760} \cup (8192..8202)
        \cup {8232, 8233, 8239, 8287, 12288}

\* str.lower() of one code point to one code point, Unicode 14.0.0: every
\* <<first, last, step, offset>> maps first, first + step, ..., last to itself + offset
LowerRuns ==
    <<<<65, 90, 1, 32>>, <<192, 214, 1, 32>>, <<216, 222, 1, 32>>, <<256, 302, 2, 1>>,
      <<306, 310, 2, 1>>, <<313, 327, 2, 1>>, <<330, 374, 2, 1>>, <<376, 376, 1, -121>>,
      <<377, 381, 2, 1>>, <<385, 385, 1, 210>>, <<386, 388, 2, 1>>, <<390, 390, 1, 206>>,
      <<391, 391, 1, 1>>, <<393, 394, 1, 205>>, <<395, 395, 1, 1>>, <<398, 398, 1, 79>>,
      <<399, 399, 1, 202>>, <<400, 400, 1, 203>>, <<401, 401, 1, 1>>, <<403, 403, 1, 205>>,
      <<404, 404, 1, 207>>, <<406, 406, 1, 211>>, <<407, 407, 1, 209>>, <<408, 408, 1, 1>>,
      <<412, 412, 1, 211>>, <<413, 413, 1, 213>>, <<415, 415, 1, 214>>, <<416, 420, 2, 1>>,
      <<422, 422, 1, 218>>, <<423, 423, 1, 1>>, <<425, 425, 1, 218>>, <<428, 428, 1, 1>>,
      <<430, 430, 1, 218>>, <<431, 431, 1, 1>>, <<433, 434, 1, 217>>, <<435, 437, 2, 1>>,
      <<439, 439, 1, 219>>, <<440, 440, 1, 1>>, <<444, 444, 1, 1>>, <<452, 452, 1, 2>>,
      <<453, 453, 1, 1>>, <<455, 455, 1, 2>>, <<456, 456, 1, 1>>, <<458, 458, 1, 2>>,
      <<459, 475, 2, 1>>, <<478, 494, 2, 1>>, <<497, 497, 1, 2>>, <<498, 500, 2, 1>>,
      <<502, 502, 1, -97>>, <<503, 503, 1, -56>>, <<504, 542, 2, 1>>, <<544, 544, 1, -130>>,
      <<546, 562, 2, 1>>, <<570, 570, 1, 10795>>, <<571, 571, 1, 1>>, <<573, 573, 1, -163>>,
      <<574, 574, 1, 10792>>, <<577, 577, 1, 1>>, <<579, 579, 1, -195>>, <<580, 580, 1, 69>>,
      <<581, 581, 1, 71>>, <<582, 590, 2, 1>>, <<880, 882, 2, 1>>, <<886, 886, 1, 1>>,
      <<895, 895, 1, 116>>, <<902, 902, 1, 38>>, <<904, 906, 1, 37>>, <<908, 908, 1, 64>>,
      <<910, 911, 1, 63>>, <<913, 929, 1, 32>>, <<931, 939, 1, 32>>, <<975, 975, 1, 8>>,
      <<984, 1006, 2, 1>>, <<1012, 1012, 1, -60>>, <<1015, 1015, 1, 1>>, <<1017, 1017, 1, -7>>,
      <<1018, 1018, 1, 1>>, <<1021, 1023, 1, -130>>, <<1024, 1039, 1, 80>>,
      <<1040, 1071, 1, 32>>, <<1120, 1152, 2, 1>>, <<1162, 1214, 2, 1>>, <<1216, 1216, 1, 15>>,
      <<1217, 1229, 2, 1>>, <<1232, 1326, 2, 1>>, <<1329, 1366, 1, 48>>,
      <<4256, 4293, 1, 7264>>, <<4295, 4295, 1, 7264>>, <<4301, 4301, 1, 7264>>,
      <<5024, 5103, 1, 38864>>, <<5104, 5109, 1, 8>>, <<7312, 7354, 1, -3008>>,
      <<7357, 7359, 1, -3008>>, <<7680, 7828, 2, 1>>, <<7838, 7838, 1, -7615>>,
      <<7840, 7934, 2, 1>>, <<7944, 7951, 1, -8>>, <<7960, 7965, 1, -8>>,
      <<7976, 7983, 1, -8>>, <<7992, 7999, 1, -8>>, <<8008, 8013, 1, -8>>,
      <<8025, 8031, 2, -8>>, <<8040, 8047, 1, -8>>, <<8072, 8079, 1, -8>>,
      <<8088, 8095, 1, -8>>, <<8104, 8111, 1, -8>>, <<8120, 8121, 1, -8>>,
      <<8122, 8123, 1, -74>>, <<8124, 8124, 1, -9>>, <<8136, 8139, 1, -86>>,
      <<8140, 8140, 1, -9>>, <<8152, 8153, 1, -8>>, <<8154, 8155, 1, -100>>,
      <<8168, 8169, 1, -8>>, <<8170, 8171, 1, -112>>, <<8172, 8172, 1, -7>>,
      <<8184, 8185, 1, -128>>, <<8186, 8187, 1, -126>>, <<8188, 8188, 1, -9>>,
      <<8486, 8486, 1, -7517>>, <<8490, 8490, 1, -8383>>, <<8491, 8491, 1, -8262>>,
      <<8498, 8498, 1, 28>>, <<8544, 8559, 1, 16>>, <<8579, 8579, 1, 1>>,
      <<9398, 9423, 1, 26>>, <<11264, 11311, 1, 48>>, <<11360, 11360, 1, 1>>,
      <<11362, 11362, 1, -10743>>, <<11363, 11363, 1, -3814>>, <<11364, 11364, 1, -10727>>,
      <<11367, 11371, 2, 1>>, <<11373, 11373, 1, -10780>>, <<11374, 11374, 1, -10749>>,
      <<11375, 11375, 1, -10783>>, <<11376, 11376, 1, -10782>>, <<11378, 11378, 1, 1>>,
      <<11381, 11381, 1, 1>>, <<11390, 11391, 1, -10815>>, <<11392, 11490, 2, 1>>,
      <<11499, 11501, 2, 1>>, <<11506, 11506, 1, 1>>, <<42560, 42604, 2, 1>>,
      <<42624, 42650, 2, 1>>, <<42786, 42798, 2, 1>>, <<42802, 42862, 2, 1>>,
      <<42873, 42875, 2, 1>>, <<42877, 42877, 1, -35332>>, <<42878, 42886, 2, 1>>,
      <<42891, 42891, 1, 1>>, <<42893, 42893, 1, -42280>>, <<42896, 42898, 2, 1>>,
      <<42902, 42920, 2, 1>>, <<42922, 42922, 1, -42308>>, <<42923, 42923, 1, -42319>>,
      <<42924, 42924, 1, -42315>>, <<42925, 42925, 1, -42305>>, <<42926, 42926, 1, -42308>>,
      <<42928, 42928, 1, -42258>>, <<42929, 42929, 1, -42282>>, <<42930, 42930, 1, -42261>>,
      <<42931, 42931, 1, 928>>, <<42932, 42946, 2, 1>>, <<42948, 42948, 1, -48>>,
      <<42949, 42949, 1, -42307>>, <<42950, 42950, 1, -35384>>, <<42951, 42953, 2, 1>>,
      <<42960, 42960, 1, 1>>, <<42966, 42968, 2, 1>>, <<42997, 42997, 1, 1>>,
      <<65313, 65338, 1, 32>>, <<66560, 66599, 1, 40>>, <<66736, 66771, 1, 40>>,
      <<66928, 66964, 2, 39>>, <<66929, 66937, 2, 39>>, <<66941, 66953, 2, 39>>,
      <<66957, 66961, 2, 39>>, <<66965, 66965, 1, 39>>, <<68736, 68786, 1, 64>>,
      <<71840, 71871, 1, 32>>, <<93760, 93791, 1, 32>>, <<125184, 125217, 1, 34>>>>

\* the cased code points that are not case-ignorable, as <<first, last>> ranges
CasedRanges ==
    <<<<65, 90>>, <<97, 122>>, <<170, 170>>, <<181, 181>>, <<186, 186>>, <<192, 214>>,
      <<216, 246>>, <<248, 442>>, <<444, 447>>, <<452, 659>>, <<661, 687>>, <<880, 883>>,
      <<886, 887>>, <<891, 893>>, <<895, 895>>, <<902, 902>>, <<904, 906>>, <<908, 908>>,
      <<910, 929>>, <<931, 1013>>, <<1015, 1153>>, <<1162, 1327>>, <<1329, 1366>>,
      <<1376, 1416>>, <<4256, 4293>>, <<4295, 4295>>, <<4301, 4301>>, <<4304, 4346>>,
      <<4349, 4351>>, <<5024, 5109>>, <<5112, 5117>>, <<7296, 7304>>, <<7312, 7354>>,
      <<7357, 7359>>, <<7424, 7467>>, <<7531, 7543>>, <<7545, 7578>>, <<7680, 7957>>,
      <<7960, 7965>>, <<7968, 8005>>, <<8008, 8013>>, <<8016, 8023>>, <<8025, 8025>>,
      <<8027, 8027>>, <<8029, 8029>>, <<8031, 8061>>, <<8064, 8116>>, <<8118, 8124>>,
      <<8126, 8126>>, <<8130, 8132>>, <<8134, 8140>>, <<8144, 8147>>, <<8150, 8155>>,
      <<8160, 8172>>, <<8178, 8180>>, <<8182, 8188>>, <<8450, 8450>>, <<8455, 8455>>,
      <<8458, 8467>>, <<8469, 8469>>, <<8473, 8477>>, <<8484, 8484>>, <<8486, 8486>>,
      <<8488, 8488>>, <<8490, 8493>>, <<8495, 8500>>, <<8505, 8505>>, <<8508, 8511>>,
      <<8517, 8521>>, <<8526, 8526>>, <<8544, 8575>>, <<8579, 8580>>, <<9398, 9449>>,
      <<11264, 11387>>, <<11390, 11492>>, <<11499, 11502>>, <<11506, 11507>>, <<11520, 11557>>,
      <<11559, 11559>>, <<11565, 11565>>, <<42560, 42605>>, <<42624, 42651>>, <<42786, 42863>>,
      <<42865, 42887>>, <<42891, 42894>>, <<42896, 42954>>, <<42960, 42961>>, <<42963, 42963>>,
      <<42965, 42969>>, <<42997, 42998>>, <<43002, 43002>>, <<43824, 43866>>, <<43872, 43880>>,
      <<43888, 43967>>, <<64256, 64262>>, <<64275, 64279>>, <<65313, 65338>>, <<65345, 65370>>,
      <<66560, 66639>>, <<66736, 66771>>, <<66776, 66811>>, <<66928, 66938>>, <<66940, 66954>>,
      <<66956, 66962>>, <<66964, 66965>>, <<66967, 66977>>, <<66979, 66993>>, <<66995, 67001>>,
      <<67003, 67004>>, <<68736, 68786>>, <<68800, 68850>>, <<71840, 71903>>, <<93760, 93823>>,
      <<119808, 119892>>, <<119894, 119964>>, <<119966, 119967>>, <<119970, 119970>>,
      <<119973, 119974>>, <<119977, 119980>>, <<119982, 119993>>, <<119995, 119995>>,
      <<119997, 120003>>, <<120005, 120069>>, <<120071, 120074>>, <<120077, 120084>>,
      <<120086, 120092>>, <<120094, 120121>>, <<120123, 120126>>, <<120128, 120132>>,
      <<120134, 120134>>, <<120138, 120144>>, <<120146, 120485>>, <<120488, 120512>>,
      <<120514, 120538>>, <<120540, 120570>>, <<120572, 120596>>, <<120598, 120628>>,
      <<120630, 120654>>, <<120656, 120686>>, <<120688, 120712>>, <<120714, 120744>>,
      <<120746, 120770>>, <<120772, 120779>>, <<122624, 122633>>, <<122635, 122654>>,
      <<125184, 125251>>, <<127280, 127305>>, <<127312, 127337>>, <<127344, 127369>>>>

\* the case-ignorable code points, as <<first, last>> ranges
CaseIgnorableRanges ==
    <<<<39, 39>>, <<46, 46>>, <<58, 58>>, <<94, 94>>, <<96, 96>>, <<168, 168>>, <<173, 173>>,
      <<175, 175>>, <<180, 180>>, <<183, 184>>, <<688, 879>>, <<884, 885>>, <<890, 890>>,
      <<900, 901>>, <<903, 903>>, <<1155, 1161>>, <<1369, 1369>>, <<1375, 1375>>,
      <<1425, 1469>>, <<1471, 1471>>, <<1473, 1474>>, <<1476, 1477>>, <<1479, 1479>>,
      <<1524, 1524>>, <<1536, 1541>>, <<1552, 1562>>, <<1564, 1564>>, <<1600, 1600>>,
      <<1611, 1631>>, <<1648, 1648>>, <<1750, 1757>>, <<1759, 1768>>, <<1770, 1773>>,
      <<1807, 1807>>, <<1809, 1809>>, <<1840, 1866>>, <<1958, 1968>>, <<2027, 2037>>,
      <<2042, 2042>>, <<2045, 2045>>, <<2070, 2093>>, <<2137, 2139>>, <<2184, 2184>>,
      <<2192, 2193>>, <<2200, 2207>>, <<2249, 2306>>, <<2362, 2362>>, <<2364, 2364>>,
      <<2369, 2376>>, <<2381, 2381>>, <<2385, 2391>>, <<2402, 2403>>, <<2417, 2417>>,
      <<2433, 2433>>, <<2492, 2492>>, <<2497, 2500>>, <<2509, 2509>>, <<2530, 2531>>,
      <<2558, 2558>>, <<2561, 2562>>, <<2620, 2620>>, <<2625, 2626>>, <<2631, 2632>>,
      <<2635, 2637>>, <<2641, 2641>>, <<2672, 2673>>, <<2677, 2677>>, <<2689, 2690>>,
      <<2748, 2748>>, <<2753, 2757>>, <<2759, 2760>>, <<2765, 2765>>, <<2786, 2787>>,
      <<2810, 2815>>, <<2817, 2817>>, <<2876, 2876>>, <<2879, 2879>>, <<2881, 2884>>,
      <<2893, 2893>>, <<2901, 2902>>, <<2914, 2915>>, <<2946, 2946>>, <<3008, 3008>>,
      <<3021, 3021>>, <<3072, 3072>>, <<3076, 3076>>, <<3132, 3132>>, <<3134, 3136>>,
      <<3142, 3144>>, <<3146, 3149>>, <<3157, 3158>>, <<3170, 3171>>, <<3201, 3201>>,
      <<3260, 3260>>, <<3263, 3263>>, <<3270, 3270>>, <<3276, 3277>>, <<3298, 3299>>,
      <<3328, 3329>>, <<3387, 3388>>, <<3393, 3396>>, <<3405, 3405>>, <<3426, 3427>>,
      <<3457, 3457>>, <<3530, 3530>>, <<3538, 3540>>, <<3542, 3542>>, <<3633, 3633>>,
      <<3636, 3642>>, <<3654, 3662>>, <<3761, 3761>>, <<3764, 3772>>, <<3782, 3782>>,
      <<3784, 3789>>, <<3864, 3865>>, <<3893, 3893>>, <<3895, 3895>>, <<3897, 3897>>,
      <<3953, 3966>>, <<3968, 3972>>, <<3974, 3975>>, <<3981, 3991>>, <<3993, 4028>>,
      <<4038, 4038>>, <<4141, 4144>>, <<4146, 4151>>, <<4153, 4154>>, <<4157, 4158>>,
      <<4184, 4185>>, <<4190, 4192>>, <<4209, 4212>>, <<4226, 4226>>, <<4229, 4230>>,
      <<4237, 4237>>, <<4253, 4253>>, <<4348, 4348>>, <<4957, 4959>>, <<5906, 5908>>,
      <<5938, 5939>>, <<5970, 5971>>, <<6002, 6003>>, <<6068, 6069>>, <<6071, 6077>>,
      <<6086, 6086>>, <<6089, 6099>>, <<6103, 6103>>, <<6109, 6109>>, <<6155, 6159>>,
      <<6211, 6211>>, <<6277, 6278>>, <<6313, 6313>>, <<6432, 6434>>, <<6439, 6440>>,
      <<6450, 6450>>, <<6457, 6459>>, <<6679, 6680>>, <<6683, 6683>>, <<6742, 6742>>,
      <<6744, 6750>>, <<6752, 6752>>, <<6754, 6754>>, <<6757, 6764>>, <<6771, 6780>>,
      <<6783, 6783>>, <<6823, 6823>>, <<6832, 6862>>, <<6912, 6915>>, <<6964, 6964>>,
      <<6966, 6970>>, <<6972, 6972>>, <<6978, 6978>>, <<7019, 7027>>, <<7040, 7041>>,
      <<7074, 7077>>, <<7080, 7081>>, <<7083, 7085>>, <<7142, 7142>>, <<7144, 7145>>,
      <<7149, 7149>>, <<7151, 7153>>, <<7212, 7219>>, <<7222, 7223>>, <<7288, 7293>>,
      <<7376, 7378>>, <<7380, 7392>>, <<7394, 7400>>, <<7405, 7405>>, <<7412, 7412>>,
      <<7416, 7417>>, <<7468, 7530>>, <<7544, 7544>>, <<7579, 7679>>, <<8125, 8125>>,
      <<8127, 8129>>, <<8141, 8143>>, <<8157, 8159>>, <<8173, 8175>>, <<8189, 8190>>,
      <<8203, 8207>>, <<8216, 8217>>, <<8228, 8228>>, <<8231, 8231>>, <<8234, 8238>>,
      <<8288, 8292>>, <<8294, 8303>>, <<8305, 8305>>, <<8319, 8319>>, <<8336, 8348>>,
      <<8400, 8432>>, <<11388, 11389>>, <<11503, 11505>>, <<11631, 11631>>, <<11647, 11647>>,
      <<11744, 11775>>, <<11823, 11823>>, <<12293, 12293>>, <<12330, 12333>>, <<12337, 12341>>,
      <<12347, 12347>>, <<12441, 12446>>, <<12540, 12542>>, <<40981, 40981>>, <<42232, 42237>>,
      <<42508, 42508>>, <<42607, 42610>>, <<42612, 42621>>, <<42623, 42623>>, <<42652, 42655>>,
      <<42736, 42737>>, <<42752, 42785>>, <<42864, 42864>>, <<42888, 42890>>, <<42994, 42996>>,
      <<43000, 43001>>, <<43010, 43010>>, <<43014, 43014>>, <<43019, 43019>>, <<43045, 43046>>,
      <<43052, 43052>>, <<43204, 43205>>, <<43232, 43249>>, <<43263, 43263>>, <<43302, 43309>>,
      <<43335, 43345>>, <<43392, 43394>>, <<43443, 43443>>, <<43446, 43449>>, <<43452, 43453>>,
      <<43471, 43471>>, <<43493, 43494>>, <<43561, 43566>>, <<43569, 43570>>, <<43573, 43574>>,
      <<43587, 43587>>, <<43596, 43596>>, <<43632, 43632>>, <<43644, 43644>>, <<43696, 43696>>,
      <<43698, 43700>>, <<43703, 43704>>, <<43710, 43711>>, <<43713, 43713>>, <<43741, 43741>>,
      <<43756, 43757>>, <<43763, 43764>>, <<43766, 43766>>, <<43867, 43871>>, <<43881, 43883>>,
      <<44005, 44005>>, <<44008, 44008>>, <<44013, 44013>>, <<64286, 64286>>, <<64434, 64450>>,
      <<65024, 65039>>, <<65043, 65043>>, <<65056, 65071>>, <<65106, 65106>>, <<65109, 65109>>,
      <<65279, 65279>>, <<65287, 65287>>, <<65294, 65294>>, <<65306, 65306>>, <<65342, 65342>>,
      <<65344, 65344>>, <<65392, 65392>>, <<65438, 65439>>, <<65507, 65507>>, <<65529, 65531>>,
      <<66045, 66045>>, <<66272, 66272>>, <<66422, 66426>>, <<67456, 67461>>, <<67463, 67504>>,
      <<67506, 67514>>, <<68097, 68099>>, <<68101, 68102>>, <<68108, 68111>>, <<68152, 68154>>,
      <<68159, 68159>>, <<68325, 68326>>, <<68900, 68903>>, <<69291, 69292>>, <<69446, 69456>>,
      <<69506, 69509>>, <<69633, 69633>>, <<69688, 69702>>, <<69744, 69744>>, <<69747, 69748>>,
      <<69759, 69761>>, <<69811, 69814>>, <<69817, 69818>>, <<69821, 69821>>, <<69826, 69826>>,
      <<69837, 69837>>, <<69888, 69890>>, <<69927, 69931>>, <<69933, 69940>>, <<70003, 70003>>,
      <<70016, 70017>>, <<70070, 70078>>, <<70089, 70092>>, <<70095, 70095>>, <<70191, 70193>>,
      <<70196, 70196>>, <<70198, 70199>>, <<70206, 70206>>, <<70367, 70367>>, <<70371, 70378>>,
      <<70400, 70401>>, <<70459, 70460>>, <<70464, 70464>>, <<70502, 70508>>, <<70512, 70516>>,
      <<70712, 70719>>, <<70722, 70724>>, <<70726, 70726>>, <<70750, 70750>>, <<70835, 70840>>,
      <<70842, 70842>>, <<70847, 70848>>, <<70850, 70851>>, <<71090, 71093>>, <<71100, 71101>>,
      <<71103, 71104>>, <<71132, 71133>>, <<71219, 71226>>, <<71229, 71229>>, <<71231, 71232>>,
      <<71339, 71339>>, <<71341, 71341>>, <<71344, 71349>>, <<71351, 71351>>, <<71453, 71455>>,
      <<71458, 71461>>, <<71463, 71467>>, <<71727, 71735>>, <<71737, 71738>>, <<71995, 71996>>,
      <<71998, 71998>>, <<72003, 72003>>, <<72148, 72151>>, <<72154, 72155>>, <<72160, 72160>>,
      <<72193, 72202>>, <<72243, 72248>>, <<72251, 72254>>, <<72263, 72263>>, <<72273, 72278>>,
      <<72281, 72283>>, <<72330, 72342>>, <<72344, 72345>>, <<72752, 72758>>, <<72760, 72765>>,
      <<72767, 72767>>, <<72850, 72871>>, <<72874, 72880>>, <<72882, 72883>>, <<72885, 72886>>,
      <<73009, 73014>>, <<73018, 73018>>, <<73020, 73021>>, <<73023, 73029>>, <<73031, 73031>>,
      <<73104, 73105>>, <<73109, 73109>>, <<73111, 73111>>, <<73459, 73460>>, <<78896, 78904>>,
      <<92912, 92916>>, <<92976, 92982>>, <<92992, 92995>>, <<94031, 94031>>, <<94095, 94111>>,
      <<94176, 94177>>, <<94179, 94180>>, <<110576, 110579>>, <<110581, 110587>>,
      <<110589, 110590>>, <<113821, 113822>>, <<113824, 113827>>, <<118528, 118573>>,
      <<118576, 118598>>, <<119143, 119145>>, <<119155, 119170>>, <<119173, 119179>>,
      <<119210, 119213>>, <<119362, 119364>>, <<121344, 121398>>, <<121403, 121452>>,
      <<121461, 121461>>, <<121476, 121476>>, <<121499, 121503>>, <<121505, 121519>>,
      <<122880, 122886>>, <<122888, 122904>>, <<122907, 122913>>, <<122915, 122916>>,
      <<122918, 122922>>, <<123184, 123197>>, <<123566, 123566>>, <<123628, 123631>>,
      <<125136, 125142>>, <<125252, 125259>>, <<127995, 127999>>, <<917505, 917505>>,
      <<917536, 917631>>, <<917760, 917999>>>>

\* c lies in one of the ranges
InRanges(c, ranges) == \E k \in DOMAIN ranges : ranges[k][1] <= c /\ c <= ranges[k][2]

\* c is cased (and not case-ignorable)
Cased(c) == InRanges(c, CasedRanges)

\* c is case-ignorable
CaseIgnorable(c) == InRanges(c, CaseIgnorableRanges)

\* c is mapped by run r of LowerRuns
InRun(c, r) == r[1] <= c /\ c <= r[2] /\ (c - r[1]) % r[3] = 0

\* str.lower() on one character other than capital sigma: ASCII first, then
\* capital I with dot above (the one code point with a two-character lower
\* case), then the table
LowerChar(c) ==
    IF c < 128 THEN <<(IF 65 <= c /\ c <= 90 THEN c + 32 ELSE c)>>
    ELSE IF c = 304 THEN <<105, 775>>
    ELSE IF \E k \in DOMAIN LowerRuns : InRun(c, LowerRuns[k])
    THEN <<c + LowerRuns[CHOOSE k \in DOMAIN LowerRuns : InRun(c, LowerRuns[k])][4]>>
    ELSE <<c>>

\* the capital sigma at s[i] is final: the nearest character before it that is not
\* case-ignorable is cased, and the nearest such character after it, if any, is not
FinalSigma(s, i) ==
    LET before == {j \in 1..(i - 1) : ~CaseIgnorable(s[j])}
        after == {j \in (i + 1)..Len(s) : ~CaseIgnorable(s[j])}
    IN  /\ before # {}
        /\ Cased(s[CHOOSE j \in before : \A k \in before : k <= j])
        /\ \/ after = {}
           \/ ~Cased(s[CHOOSE j \in after : \A k \in after : j <= k])

\* str.lower()
Lower(s) ==
    LET lowered[i \in 1..(Len(s) + 1)] ==
            IF i > Len(s) THEN <<>>
            ELSE (IF s[i] = 931
                  THEN <<(IF FinalSigma(s, i) THEN 962 ELSE 963)>>
                  ELSE LowerChar(s[i])) \o lowered[i + 1]
    IN  lowered[1]

\* str.strip(): drop the leading and the trailing whitespace
Strip(s) ==
    LET keep == {i \in DOMAIN s : s[i] \notin Whitespace}
    IN  IF keep = {} THEN <<>>
        ELSE LET lo == CHOOSE i \in keep : \A j \in keep : i <= j
                 hi == CHOOSE i \in keep : \A j \in keep : j <= i
             IN  SubSeq(s, lo, hi)

\* "exit"
S_exit ==
    <<101, 120, 105, 116>>
\* "quit"
S_quit ==
    <<113, 117, 105, 116>>
\* "bye"
S_bye ==
    <<98, 121, 101>>
\* "goodbye"
S_goodbye ==
    <<103, 111, 111, 100, 98, 121, 101>>

\* the list process_question tests the question against
ExitPhrases == {S_exit, S_quit, S_bye, S_goodbye}

\* "Error retrieving data: "
ErrorRetrievingData ==
    <<69, 114, 114, 111, 114, 32, 114, 101, 116, 114, 105, 101, 118, 105, 110, 103, 32, 100,
      97, 116, 97, 58, 32>>
\* "Sorry, I encountered an error while processing your question: "
SorryPrefix ==
    <<83, 111, 114, 114, 121, 44, 32, 73, 32, 101, 110, 99, 111, 117, 110, 116, 101, 114, 101,
      100, 32, 97, 110, 32, 101, 114, 114, 111, 114, 32, 119, 104, 105, 108, 101, 32, 112, 114,
      111, 99, 101, 115, 115, 105, 110, 103, 32, 121, 111, 117, 114, 32, 113, 117, 101, 115,
      116, 105, 111, 110, 58, 32>>
\* "'NoneType' object is not callable"
NoneNotCallable ==
    <<39, 78, 111, 110, 101, 84, 121, 112, 101, 39, 32, 111, 98, 106, 101, 99, 116, 32, 105,
      115, 32, 110, 111, 116, 32, 99, 97, 108, 108, 97, 98, 108, 101>>

\* "How many students went to Canada?"
Sample1 ==
    <<72, 111, 119, 32, 109, 97, 110, 121, 32, 115, 116, 117, 100, 101, 110, 116, 115, 32, 119,
      101, 110, 116, 32, 116, 111, 32, 67, 97, 110, 97, 100, 97, 63>>
\* "Which country has the most students?"
Sample2 ==
    <<87, 104, 105, 99, 104, 32, 99, 111, 117, 110, 116, 114, 121, 32, 104, 97, 115, 32, 116,
      104, 101, 32, 109, 111, 115, 116, 32, 115, 116, 117, 100, 101, 110, 116, 115, 63>>
\* "Show me migration trends by year"
Sample3 ==
    <<83, 104, 111, 119, 32, 109, 101, 32, 109, 105, 103, 114, 97, 116, 105, 111, 110, 32, 116,
      114, 101, 110, 100, 115, 32, 98, 121, 32, 121, 101, 97, 114>>
\* "What are the top 5 destinations?"
Sample4 ==
    <<87, 104, 97, 116, 32, 97, 114, 101, 32, 116, 104, 101, 32, 116, 111, 112, 32, 53, 32,
      100, 101, 115, 116, 105, 110, 97, 116, 105, 111, 110, 115, 63>>
\* "How many students from India?"
Sample5 ==
    <<72, 111, 119, 32, 109, 97, 110, 121, 32, 115, 116, 117, 100, 101, 110, 116, 115, 32, 102,
      114, 111, 109, 32, 73, 110, 100, 105, 97, 63>>
\* "What is the average age of migrating students?"
Sample6 ==
    <<87, 104, 97, 116, 32, 105, 115, 32, 116, 104, 101, 32, 97, 118, 101, 114, 97, 103, 101,
      32, 97, 103, 101, 32, 111, 102, 32, 109, 105, 103, 114, 97, 116, 105, 110, 103, 32, 115,
      116, 117, 100, 101, 110, 116, 115, 63>>
\* "Which field of study is most popular?"
Sample7 ==
    <<87, 104, 105, 99, 104, 32, 102, 105, 101, 108, 100, 32, 111, 102, 32, 115, 116, 117, 100,
      121, 32, 105, 115, 32, 109, 111, 115, 116, 32, 112, 111, 112, 117, 108, 97, 114, 63>>

sample_questions == <<Sample1, Sample2, Sample3, Sample4, Sample5, Sample6, Sample7>>

-----------------------------------------------------------------------------
(* Inputs and the environment *)

\* ""
In_empty ==
    <<>>
\* "bye"
In_bye ==
    <<98, 121, 101>>
\* " Quit\t"
In_quit_padded ==
    <<32, 81, 117, 105, 116, 9>>
\* "GOODBYE"
In_goodbye_upper ==
    <<71, 79, 79, 68, 66, 89, 69>>
\* "exit\u00a0"
In_exit_nbsp ==
    <<101, 120, 105, 116, 160>>
\* "bye;--"
In_sql ==
    <<98, 121, 101, 59, 45, 45>>
\* "timeout"
Cause_timeout ==
    <<116, 105, 109, 101, 111, 117, 116>>
\* "\u000b120\n"
Raw_padded ==
    <<11, 49, 50, 48, 10>>
\* "120 students"
Completion_text ==
    <<49, 50, 48, 32, 115, 116, 117, 100, 101, 110, 116, 115>>
\* ""
Completion_empty ==
    <<>>

\* what the user types into the text input: the empty text, exit phrases in several
\* spellings (upper case, padded with blanks, a tab or a no-break space), and SQL-like
\* text that starts with an exit phrase
TypedInputs == {In_empty, In_bye, In_quit_padded, In_goodbye_upper, In_exit_nbsp, In_sql}

\* str(e) of an exception raised by the query chain or by the model call
Causes == {Cause_timeout}

\* db_chain(query)['result'] when the chain succeeds
RawResults == {Raw_padded}

\* llm(messages).content when the model call succeeds
Completions == {Completion_text, Completion_empty}

\* the values of OPENAI_API_KEY: not set, set to the empty string, set to a key
Environs ==
    { [k \in {} |-> ""],
      [k \in {"OPENAI_API_KEY"} |-> ""],
      [k \in {"OPENAI_API_KEY"} |-> "sk-test"] }

\* os.getenv(name, default)
Getenv(env, name, default) == IF name \in DOMAIN env THEN env[name] ELSE default

\* the OpenAI endpoint accepts the key
KeyAccepted(key) == key = "sk-test"

-----------------------------------------------------------------------------
(* st.session_state *)

\* key in st.session_state
Has(ss, key) == key \in DOMAIN ss

\* st.session_state.get(key, default)
Get(ss, key, default) == IF key \in DOMAIN ss THEN ss[key] ELSE default

\* st.session_state.key = value
Set(ss, key, value) == [k \in DOMAIN ss \cup {key} |-> IF k = key THEN value ELSE ss[k]]

\* del st.session_state.key
Del(ss, key) == [k \in DOMAIN ss \ {key} |-> ss[k]]

\* st.session_state.get("chat_history", [])
ChatHistoryOf(ss) == Get(ss, "chat_history", <<>>)

\* the session's chat history in the current state
ChatHistory == ChatHistoryOf(session_state)

\* Python's None
None == [type |-> "NoneType"]

\* what a callee did: returned value, or raised an exception whose str() is value
Returns(value) == [raised |-> FALSE, value |-> value]
Raises(cause) == [raised |-> TRUE, value |-> cause]

\* how an external call ended
Succeeds(result) == [ok |-> TRUE, text |-> result]
Fails(cause) == [ok |-> FALSE, text |-> cause]

-----------------------------------------------------------------------------
(* initialize_database and the top of the script *)

\* initialize_database(): the session state it leaves, the handles it returns and
\* the messages it shows
initialize_database(ss, env, reachable) ==
    LET OPENAI_API_KEY == Getenv(env, "OPENAI_API_KEY", "YOUR API KEY")
        llm == [type |-> "ChatOpenAI", temperature |-> 0, openai_api_key |-> OPENAI_API_KEY]
        db == [type |-> "SQLDatabase", include_tables |-> <<"global_student_migration">>,
               sample_rows_in_table_info |-> 2]
        db_chain == [type |-> "SQLDatabaseChain", llm |-> llm, db |-> db]
    IN  IF OPENAI_API_KEY = ""
        THEN [ss |-> ss, llm |-> None, db |-> None, db_chain |-> None,
              messages |-> {"api_key_not_found"}]
        ELSE IF reachable
        THEN [ss |-> Set(ss, "db_connected", TRUE), llm |-> llm, db |-> db,
              db_chain |-> db_chain, messages |-> {}]
        ELSE [ss |-> Set(ss, "db_connected", FALSE), llm |-> None, db |-> None,
              db_chain |-> None, messages |-> {"connection_failed"}]

\* initialize_database() gets as far as the connection to the database
ReachesConnect(env) == Getenv(env, "OPENAI_API_KEY", "YOUR API KEY") # ""

\* initialize_database() when a widget event arrived during the connection: the
\* session states the ended run can leave.  After a connection that failed the run
\* ends at st.error, before db_connected is stored.  After one that succeeded it
\* ends either at the store of db_connected (line 47), where the Streamlit releases
\* that check for a pending event on every access to st.session_state end it, with
\* nothing stored, or at progress_bar.progress(75), with db_connected stored
initialize_database_Stopped(ss, env, reachable) ==
    IF reachable THEN {ss, initialize_database(ss, env, reachable).ss} ELSE {ss}

\* the sidebar's status section: db_connected defaults to False
SidebarStatus(ss) == IF ~Has(ss, "db_connected") THEN Set(ss, "db_connected", FALSE) ELSE ss

\* the condition of the "Initialize components" block
NeedsInitialization(ss) == ~Has(ss, "initialized")

\* the "Initialize components" block
InitializeComponents(ss, env, reachable) ==
    IF NeedsInitialization(ss)
    THEN LET r == initialize_database(ss, env, reachable)
         IN  [ss |-> Set(Set(Set(Set(r.ss, "llm", r.llm), "db", r.db),
                             "db_chain", r.db_chain), "initialized", TRUE),
              calls |-> 1, messages |-> r.messages]
    ELSE [ss |-> ss, calls |-> 0, messages |-> {}]

\* the "Initialize chat history" block
InitializeChatHistory(ss) ==
    IF ~Has(ss, "chat_history") THEN Set(ss, "chat_history", <<>>) ELSE ss

\* a faulty gate: the run never stops and the form is always drawn
SystemNotReady_NoStop(ss) == FALSE

\* the "system not ready" gate: the run ends at st.stop() before the form
SystemNotReady(ss) == ~Get(ss, "db_connected", FALSE)

\* the messages of the gate
GateMessages(ss) == IF SystemNotReady(ss) THEN {"system_not_ready"} ELSE {}

\* a script run from its first line to the gate, with no widget pressed, in a
\* session that has `initialized` stored (the "Initialize components" block is skipped)
Top(ss) ==
    LET s == InitializeChatHistory(SidebarStatus(ss))
    IN  [ss |-> s, messages |-> GateMessages(s)]

\* the "Show database info if requested" block, which comes after the gate
DatabaseInfoPanel(ss) ==
    IF ~SystemNotReady(ss) /\ Get(ss, "show_db_info", FALSE) THEN {"database_info"} ELSE {}

-----------------------------------------------------------------------------
(* The pipeline: retrieve_from_db, generate_response, process_question *)

\* how db_chain(query) can end: it needs the server and a key the endpoint accepts
ChainOutcomes(db_chain, reachable) ==
    {Fails(c) : c \in Causes} \cup
    (IF db_chain # None /\ reachable /\ KeyAccepted(db_chain.llm.openai_api_key)
     THEN {Succeeds(r) : r \in RawResults} ELSE {})

\* how llm(messages) can end
LlmOutcomes(llm) ==
    {Fails(c) : c \in Causes} \cup
    (IF llm # None /\ KeyAccepted(llm.openai_api_key)
     THEN {Succeeds(c) : c \in Completions} ELSE {})

\* a faulty retrieve_from_db: the exception of the chain is raised again
retrieve_from_db_Reraises(query, db_chain, outcome) ==
    LET call == IF db_chain = None THEN Fails(NoneNotCallable) ELSE outcome
    IN  IF call.ok THEN Returns(Strip(call.text)) ELSE Raises(call.text)

\* retrieve_from_db(query, db_chain), outcome being how db_chain(query) ends;
\* calling None raises TypeError inside the try
retrieve_from_db(query, db_chain, outcome) ==
    LET call == IF db_chain = None THEN Fails(NoneNotCallable) ELSE outcome
    IN  IF call.ok
        THEN Returns(Strip(call.text))
        ELSE Returns(ErrorRetrievingData \o call.text)

\* generate_response after retrieve_from_db has ended as `retrieved`: the messages
\* built from the question and the context, the model call and the except clause
generate_response(query, llm, retrieved, outcome) ==
    IF retrieved.raised
    THEN [value |-> SorryPrefix \o retrieved.value, llm_called |-> FALSE,
          human_input |-> query, db_context |-> <<>>]
    ELSE LET call == IF llm = None THEN Fails(NoneNotCallable) ELSE outcome
         IN  [value |-> IF call.ok THEN call.text ELSE SorryPrefix \o call.text,
              llm_called |-> TRUE, human_input |-> query, db_context |-> retrieved.value]

\* a faulty test: the question is lower-cased but not stripped
IsExitPhrase_NoStrip(question) == Lower(question) \in ExitPhrases

\* the test at the head of process_question
IsExitPhrase(question) == Strip(Lower(question)) \in ExitPhrases

\* a faulty exit branch: the exit is recorded by ending the session's connection
ExitBranch_EndsSession(ss) == Set(ss, "db_connected", FALSE)

\* what the exit branch of process_question does to the session state: nothing
ExitBranch(ss) == ss

\* st.session_state.chat_history.append(("You", question))
AppendUser(ss, question) ==
    Set(ss, "chat_history", Append(ss["chat_history"], <<"You", question>>))

\* st.session_state.chat_history.append(("Bot", response))
AppendBot(ss, response) ==
    Set(ss, "chat_history", Append(ss["chat_history"], <<"Bot", response>>))

\* the messages of the exit branch
ExitMessages == {"thank_you", "ask_anytime", "balloons"}

\* how the spinner and the progress bar before the try block can end: they work,
\* or one of them raises and the exception leaves process_question
SpinnerFaults == {"none", "before_try"}

\* how the statements of the try block from generate_response's return to the wait
\* can end: none raises; or one raises before the assistant entry is appended
\* (progress_bar.progress(75); generate_response itself catches every Exception)
\* or after it (progress_bar.progress(100)).  The except clause then completes, or
\* raises in its turn and the exception leaves process_question: at
\* progress_bar.empty() or st.error with nothing shown ("_uncaught"), or at
\* st.warning with the error shown ("_warning")
UiFaults ==
    {"none", "before_append", "before_append_uncaught", "before_append_warning",
     "after_append", "after_append_uncaught", "after_append_warning"}

\* how the statements after the wait (progress_bar.empty(), st.success) can end
ReturnFaults == {"none", "after_append", "after_append_uncaught", "after_append_warning"}

\* the faults after which process_question does not return
Uncaught ==
    {"before_try", "before_append_uncaught", "before_append_warning",
     "after_append_uncaught", "after_append_warning"}

\* what the except clause had shown when it ended
ExceptMessages(fault) ==
    IF fault \in {"before_append", "after_append"} THEN {"error_occurred", "try_rephrasing"}
    ELSE IF fault \in {"before_append_warning", "after_append_warning"}
    THEN {"error_occurred"}
    ELSE {}

\* where a widget event can reach a waiting script: in the connection to the
\* database, and in time.sleep in the "Initialize components" block, after "Clear
\* Chat History" and in process_question after the assistant entry
Waits == {"connect", "init_wait", "clear_wait", "respond_wait"}

\* the locals of a process_question call that has not run the pipeline yet
NewFrame(question) ==
    [question |-> question, retrieved |-> FALSE, chain_failed |-> FALSE,
     chain_cause |-> <<>>, db_context |-> <<>>, llm_called |-> FALSE,
     llm_failed |-> FALSE, llm_cause |-> <<>>, llm_context |-> <<>>, response |-> <<>>,
     after_exit |-> FALSE]

\* the sample question the sidebar stored, if any
SelectedQuestion(ss) ==
    IF Has(ss, "selected_question") THEN {ss["selected_question"]} ELSE {}

\* the texts the user can send: typed, or the prefilled sample question
UserInputs == TypedInputs \cup SelectedQuestion(session_state)

-----------------------------------------------------------------------------
(* The state machine *)

Init ==
    /\ environ \in Environs
    /\ db_reachable \in BOOLEAN
    /\ session_state = [k \in {} |-> FALSE]
    /\ form_rendered = FALSE
    /\ retry_rendered = FALSE
    /\ pc = "start"
    /\ frame = NewFrame(<<>>)
    /\ returned = "none"
    /\ emitted = {}
    /\ trace = <<>>
    /\ origin = <<>>
    /\ init_calls = 0
    /\ last_event = "none"

\* the rest of an interaction: the run (or the rerun) from the top of the script
\* over session state ss, having shown messages.  With `initialized` stored it goes
\* to the gate.  Without, it enters the "Initialize components" block and goes as
\* far as the connection to the database, or, when initialize_database returns
\* before the connection, as far as the wait of the block
RunFromTop(ss, messages) ==
    LET s == SidebarStatus(ss)
    IN  IF NeedsInitialization(s)
        THEN /\ init_calls' = 1
             /\ UNCHANGED <<form_rendered, retry_rendered>>
             /\ IF ReachesConnect(environ)
                THEN /\ session_state' = s
                     /\ emitted' = messages
                     /\ pc' = "connect"
                ELSE LET i == InitializeComponents(s, environ, db_reachable)
                     IN  /\ session_state' = i.ss
                         /\ emitted' = messages \cup i.messages
                         /\ pc' = "init_wait"
        ELSE LET t == Top(ss)
             IN  /\ session_state' = t.ss
                 /\ init_calls' = 0
                 /\ form_rendered' = ~SystemNotReady(t.ss)
                 /\ retry_rendered' = SystemNotReady(t.ss)
                 /\ emitted' = messages \cup t.messages \cup DatabaseInfoPanel(t.ss)
                 /\ pc' = "idle"

\* an interaction that does not reach process_question leaves no call behind
NoCall ==
    /\ frame' = NewFrame(<<>>)
    /\ returned' = "none"
    /\ trace' = <<>>

\* the first script run of the session, as far as the connection to the database
\* or the wait of the "Initialize components" block
SessionStart ==
    /\ pc = "start"
    /\ RunFromTop(session_state, {})
    /\ last_event' = "session_start"
    /\ NoCall
    /\ UNCHANGED <<environ, db_reachable, origin>>

\* the connection to the database ends, initialize_database returns, the handles
\* and `initialized` are stored, and the run reaches the wait of the block
Connect ==
    /\ pc = "connect"
    /\ LET i == InitializeComponents(session_state, environ, db_reachable)
       IN  /\ session_state' = i.ss
           /\ emitted' = emitted \cup i.messages
    /\ pc' = "init_wait"
    /\ last_event' = "connect"
    /\ UNCHANGED <<environ, db_reachable, form_rendered, retry_rendered, frame, returned,
                   trace, origin, init_calls>>

\* the rest of a run after the wait of the "Initialize components" block: the chat
\* history is created and the run reaches the gate
InitializeResume ==
    /\ pc = "init_wait"
    /\ session_state' = InitializeChatHistory(session_state)
    /\ form_rendered' = ~SystemNotReady(session_state)
    /\ retry_rendered' = SystemNotReady(session_state)
    /\ emitted' = emitted \cup GateMessages(session_state) \cup DatabaseInfoPanel(session_state)
    /\ pc' = "idle"
    /\ last_event' = "initialize_resume"
    /\ UNCHANGED <<environ, db_reachable, frame, returned, trace, origin, init_calls>>

\* a widget event arrives while the script waits in the connection to the database
\* or in time.sleep: Streamlit ends the run at its next command with an exception
\* that `except Exception` does not catch, so the rest of the run is skipped and
\* the page keeps what was on it; the event's own run is the step that follows.
\* A run ended during the connection leaves `initialized` and the handles unset
StopRun ==
    /\ pc \in Waits
    /\ session_state' \in IF pc = "connect"
                          THEN initialize_database_Stopped(session_state, environ,
                                                           db_reachable)
                          ELSE {session_state}
    /\ returned' = IF pc = "respond_wait" THEN "raised" ELSE returned
    /\ pc' = "idle"
    /\ last_event' = "stop_run"
    /\ UNCHANGED <<environ, db_reachable, form_rendered, retry_rendered, frame, emitted,
                   trace, origin, init_calls>>

\* the MySQL server goes down or comes up
ServerChange ==
    /\ db_reachable' = ~db_reachable
    /\ UNCHANGED <<environ, session_state, form_rendered, retry_rendered, pc, frame,
                   returned, emitted, trace, origin, init_calls, last_event>>

\* sidebar button "Clear Chat History"
ClearChatHistoryHandler(ss) == Set(ss, "chat_history", <<>>)

\* sidebar button "Clear Chat History", to the wait before st.rerun()
ClearChatHistory ==
    /\ pc = "idle"
    /\ session_state' = ClearChatHistoryHandler(SidebarStatus(session_state))
    /\ emitted' = {"history_cleared"}
    /\ origin' = <<>>
    /\ pc' = "clear_wait"
    /\ last_event' = "clear_chat_history"
    /\ NoCall
    /\ init_calls' = 0
    /\ UNCHANGED <<environ, db_reachable, form_rendered, retry_rendered>>

\* st.rerun() after the wait, and the run from the top
ClearChatHistoryRerun ==
    /\ pc = "clear_wait"
    /\ RunFromTop(session_state, emitted)
    /\ last_event' = "clear_chat_history_rerun"
    /\ UNCHANGED <<environ, db_reachable, frame, returned, trace, origin>>

\* what a sample-question button does to the session state
SampleQuestionHandler(ss, question) ==
    IF Get(ss, "db_connected", FALSE) THEN Set(ss, "selected_question", question) ELSE ss

\* sidebar button of sample question i
SampleQuestion(i) ==
    /\ pc = "idle"
    /\ LET ss == SidebarStatus(session_state)
       IN  RunFromTop(SampleQuestionHandler(ss, sample_questions[i]),
                      IF Get(ss, "db_connected", FALSE) THEN {} ELSE {"db_not_connected"})
    /\ last_event' = "sample_question"
    /\ NoCall
    /\ UNCHANGED <<environ, db_reachable, origin>>

\* what the sidebar button "Show Database Info" does to the session state
ShowDatabaseInfoHandler(ss) == Set(ss, "show_db_info", TRUE)

\* sidebar button "Show Database Info": no rerun, the run goes on to its end
ShowDatabaseInfo ==
    /\ pc = "idle"
    /\ RunFromTop(ShowDatabaseInfoHandler(SidebarStatus(session_state)), {})
    /\ last_event' = "show_db_info"
    /\ NoCall
    /\ UNCHANGED <<environ, db_reachable, origin>>

\* what the button "Hide Database Info" does to the session state
HideDatabaseInfoHandler(ss) == Set(ss, "show_db_info", FALSE)

\* button "Hide Database Info", drawn with the panel
HideDatabaseInfo ==
    /\ pc = "idle"
    /\ form_rendered
    /\ Get(session_state, "show_db_info", FALSE)
    /\ LET t == Top(session_state)
       IN  RunFromTop(HideDatabaseInfoHandler(t.ss), DatabaseInfoPanel(t.ss))
    /\ last_event' = "hide_db_info"
    /\ NoCall
    /\ UNCHANGED <<environ, db_reachable, origin>>

\* what the button "Retry Connection" does to the session state
RetryConnectionHandler(ss) == Set(ss, "initialized", FALSE)

\* button "Retry Connection", drawn when the run stops at the gate
RetryConnection ==
    /\ pc = "idle"
    /\ retry_rendered
    /\ RunFromTop(RetryConnectionHandler(Top(session_state).ss), {})
    /\ last_event' = "retry_connection"
    /\ NoCall
    /\ UNCHANGED <<environ, db_reachable, origin>>

\* a faulty "Clear": it resets the chat history along with the input
ClearInputHandler_ClearsChat(ss) == Set(Del(ss, "selected_question"), "chat_history", <<>>)

\* what the form button "Clear" does to the session state
ClearInputHandler(ss) == Del(ss, "selected_question")

\* form button "Clear"
ClearInput ==
    /\ pc = "idle"
    /\ form_rendered
    /\ RunFromTop(ClearInputHandler(Top(session_state).ss),
                  {"input_cleared"})
    /\ last_event' = "clear_input"
    /\ NoCall
    /\ UNCHANGED <<environ, db_reachable, origin>>

\* form button "Help": the help text is shown and the run goes on to its end
Help ==
    /\ pc = "idle"
    /\ form_rendered
    /\ RunFromTop(session_state, {"help"})
    /\ last_event' = "help"
    /\ NoCall
    /\ UNCHANGED <<environ, db_reachable, origin>>

\* form button "Send Message" with user_input = text: the handler up to the start
\* of the pipeline (`submitted and user_input`, then process_question to its
\* progress bar), or all of it when the text is empty or an exit phrase, or when
\* the progress bar raises and the exception ends the script run
Submit(text) ==
    /\ pc = "idle"
    /\ form_rendered
    /\ text \in UserInputs
    /\ UNCHANGED <<environ, db_reachable>>
    /\ LET t == Top(session_state)
       IN  IF text = <<>>
           THEN \* an empty text is falsy: no handler runs and the run goes on to its end
                /\ RunFromTop(session_state, {})
                /\ last_event' = "submit_empty"
                /\ NoCall
                /\ UNCHANGED origin
           ELSE IF IsExitPhrase(text)
           THEN \* process_question returns True, the handler drops the sample and reruns
                /\ RunFromTop(Del(ExitBranch(t.ss), "selected_question"), ExitMessages)
                /\ frame' = NewFrame(text)
                /\ returned' = "True"
                /\ trace' = <<>>
                /\ last_event' = "submit_exit"
                /\ UNCHANGED origin
           ELSE /\ Len(ChatHistoryOf(t.ss)) < MaxHistory
                /\ session_state' = AppendUser(t.ss, text)
                /\ origin' = Append(origin, text)
                /\ frame' = [NewFrame(text) EXCEPT !.after_exit = (last_event = "submit_exit")]
                /\ trace' = <<"user_append">>
                /\ emitted' = DatabaseInfoPanel(t.ss)
                /\ init_calls' = 0
                /\ last_event' = "submit_question"
                /\ \E fault \in SpinnerFaults :
                       IF fault \in Uncaught
                       THEN \* the run ends here: no pipeline, the sample stays, no rerun
                            /\ returned' = "raised"
                            /\ UNCHANGED pc
                       ELSE /\ returned' = "none"
                            /\ pc' = "retrieve"
                /\ UNCHANGED <<form_rendered, retry_rendered>>

\* generate_response calls retrieve_from_db
Retrieve(outcome) ==
    /\ pc = "retrieve"
    /\ outcome \in ChainOutcomes(session_state["db_chain"], db_reachable)
    /\ LET db_chain == session_state["db_chain"]
           r == retrieve_from_db(frame.question, db_chain, outcome)
           failed == db_chain = None \/ ~outcome.ok
           cause == IF db_chain = None THEN NoneNotCallable
                    ELSE IF outcome.ok THEN <<>> ELSE outcome.text
       IN  /\ trace' = Append(trace, "retrieve_from_db")
           /\ IF r.raised
              THEN \* the except clause of generate_response
                   LET g == generate_response(frame.question, session_state["llm"], r,
                                              Fails(<<>>))
                   IN  /\ frame' = [frame EXCEPT !.retrieved = TRUE, !.chain_failed = failed,
                                                 !.chain_cause = cause, !.response = g.value]
                       /\ pc' = "respond"
              ELSE /\ frame' = [frame EXCEPT !.retrieved = TRUE, !.chain_failed = failed,
                                             !.chain_cause = cause, !.db_context = r.value]
                   /\ pc' = "llm"
    /\ last_event' = "retrieve"
    /\ UNCHANGED <<environ, db_reachable, session_state, form_rendered, retry_rendered,
                   returned, emitted,
                   origin, init_calls>>

\* generate_response builds the messages and calls the model
Synthesize(outcome) ==
    /\ pc = "llm"
    /\ outcome \in LlmOutcomes(session_state["llm"])
    /\ LET llm == session_state["llm"]
           g == generate_response(frame.question, llm, Returns(frame.db_context), outcome)
       IN  /\ frame' = [frame EXCEPT !.llm_called = g.llm_called,
                                     !.llm_failed = (llm = None \/ ~outcome.ok),
                                     !.llm_cause = IF llm = None THEN NoneNotCallable
                                                   ELSE IF outcome.ok THEN <<>>
                                                   ELSE outcome.text,
                                     !.llm_context = g.db_context,
                                     !.response = g.value]
           /\ trace' = IF g.llm_called THEN Append(trace, "llm") ELSE trace
    /\ pc' = "respond"
    /\ last_event' = "synthesize"
    /\ UNCHANGED <<environ, db_reachable, session_state, form_rendered, retry_rendered,
                   returned, emitted,
                   origin, init_calls>>

\* the end of a process_question call that took the except clause, and what follows
\* it: when the clause completes the call returns False and the form handler drops
\* the sample and reruns; when the clause raises the exception leaves
\* process_question, the handler's tail does not run and the script run ends
ExceptClause(ss, fault) ==
    IF fault \in Uncaught
    THEN /\ session_state' = ss
         /\ returned' = "raised"
         /\ emitted' = emitted \cup ExceptMessages(fault)
         /\ pc' = "idle"
         /\ UNCHANGED <<form_rendered, retry_rendered, init_calls>>
    ELSE /\ RunFromTop(Del(ss, "selected_question"), emitted \cup ExceptMessages(fault))
         /\ returned' = "False"

\* process_question from the return of generate_response to the wait:
\* progress_bar.progress(75), the append of the assistant entry,
\* progress_bar.progress(100); or the except clause
Respond(fault) ==
    /\ pc = "respond"
    /\ fault \in UiFaults
    /\ LET appended == fault \notin {"before_append", "before_append_uncaught",
                                     "before_append_warning"}
           ss == IF appended THEN AppendBot(session_state, frame.response)
                 ELSE session_state
       IN  /\ IF fault = "none"
              THEN /\ session_state' = ss
                   /\ pc' = "respond_wait"
                   /\ UNCHANGED <<form_rendered, retry_rendered, returned, emitted,
                                  init_calls>>
              ELSE ExceptClause(ss, fault)
           /\ origin' = IF appended THEN Append(origin, frame.question) ELSE origin
           /\ trace' = IF appended THEN Append(trace, "bot_append") ELSE trace
    /\ last_event' = "respond"
    /\ UNCHANGED <<environ, db_reachable, frame>>

\* process_question after the wait (progress_bar.empty(), st.success, return True,
\* or the except clause) and the rest of the form handler (drop the sample, rerun)
Return(fault) ==
    /\ pc = "respond_wait"
    /\ fault \in ReturnFaults
    /\ IF fault = "none"
       THEN /\ RunFromTop(Del(session_state, "selected_question"),
                          emitted \cup {"response_generated"})
            /\ returned' = "True"
       ELSE ExceptClause(session_state, fault)
    /\ last_event' = "return"
    /\ UNCHANGED <<environ, db_reachable, frame, trace, origin>>

\* a click on one of the sample-question buttons
SampleQuestionClick ==
    \E i \in 1..MaxSample : i \in DOMAIN sample_questions /\ SampleQuestion(i)

\* the form is sent with some text
SubmitForm == \E text \in UserInputs : Submit(text)

\* the query chain ends in one of the ways it can
RetrieveStep ==
    /\ pc = "retrieve"
    /\ \E outcome \in ChainOutcomes(session_state["db_chain"], db_reachable) : Retrieve(outcome)

\* the model call ends in one of the ways it can
SynthesizeStep ==
    /\ pc = "llm"
    /\ \E outcome \in LlmOutcomes(session_state["llm"]) : Synthesize(outcome)

\* process_question goes on to its wait, or ends in the except clause
RespondStep == \E fault \in UiFaults : Respond(fault)

\* process_question and the form handler finish
ReturnStep == \E fault \in ReturnFaults : Return(fault)

Next ==
    \/ SessionStart
    \/ Connect
    \/ InitializeResume
    \/ StopRun
    \/ ServerChange
    \/ ClearChatHistory
    \/ ClearChatHistoryRerun
    \/ SampleQuestionClick
    \/ ShowDatabaseInfo
    \/ HideDatabaseInfo
    \/ RetryConnection
    \/ ClearInput
    \/ Help
    \/ SubmitForm
    \/ RetrieveStep
    \/ SynthesizeStep
    \/ RespondStep
    \/ ReturnStep

Spec == Init /\ [][Next]_vars

-----------------------------------------------------------------------------
(* Vocabulary of the claims *)

\* st.session_state.get("db_connected", False)
DbConnected == Get(session_state, "db_connected", FALSE)

\* the inputs of the model that are exit phrases once lower-cased and stripped
ExitInputs == {In_bye, In_quit_padded, In_goodbye_upper, In_exit_nbsp}

\* the inputs of the model that are questions for the pipeline
QuestionInputs == {In_sql} \cup {sample_questions[i] : i \in DOMAIN sample_questions}

\* u is a prefix of s
IsPrefix(u, s) == Len(u) <= Len(s) /\ SubSeq(s, 1, Len(u)) = u

\* user and assistant entries alternate, a user entry first, an assistant entry last
Alternates(h) ==
    /\ Len(h) % 2 = 0
    /\ \A i \in DOMAIN h : h[i][1] = (IF i % 2 = 1 THEN "You" ELSE "Bot")

\* every assistant entry was appended by the call that handled the question of the
\* user entry right before it
AnswersItsQuestion(h, o) ==
    \A i \in DOMAIN h :
        h[i][1] = "Bot" => i > 1 /\ i \in DOMAIN o /\ h[i - 1] = <<"You", o[i]>>

\* the events of a question that went through the whole pipeline
FullPipeline == <<"user_append", "retrieve_from_db", "llm", "bot_append">>

\* the process_question call of the latest interaction took a question past the
\* exit test and has ended, by a return or by an exception
CallEnded ==
    /\ pc = "idle"
    /\ trace # <<>>
    /\ returned # "none"

\* the last entry of the chat history is the assistant entry of the latest call
AnswerAppended ==
    /\ Len(ChatHistory) >= 2
    /\ ChatHistory[Len(ChatHistory)] = <<"Bot", frame.response>>
    /\ ChatHistory[Len(ChatHistory) - 1] = <<"You", frame.question>>

-----------------------------------------------------------------------------
(* The claims *)

\* C1: whenever no question is being processed, the chat history alternates user
\* and assistant entries, starts with a user entry, ends with an assistant entry,
\* and each assistant entry answers the user entry right before it; also after
\* process_question took its failure branch.
C1_AlternationWhenIdle ==
    pc = "idle" => Alternates(ChatHistory) /\ AnswersItsQuestion(ChatHistory, origin)

\* C2: every process_question call on a question returns normally with the
\* assistant entry of that question appended, whatever failed between the two
\* appends.
C2_AnswerAlwaysAppended ==
    CallEnded => returned # "raised" /\ AnswerAppended

\* C3: sending an exit phrase (any case, padded with whitespace) never invokes
\* the Translator or the Synthesizer, emits the closing acknowledgment and leaves
\* the chat history as it was.
C3_ExitShortCircuits ==
    [][\A text \in ExitInputs :
          (pc = "idle" /\ frame'.question = text /\ Submit(text)) =>
              /\ ChatHistory' = ChatHistory
              /\ pc' = "idle"
              /\ trace' = <<>>
              /\ ~frame'.retrieved /\ ~frame'.llm_called
              /\ ExitMessages \subseteq emitted']_vars

\* C3, witness: an exit phrase padded with a no-break space was sent in a session
\* that already holds a chat.
C3_Witness ==
    /\ last_event = "submit_exit"
    /\ Len(ChatHistory) >= 2
    /\ ExitMessages \subseteq emitted
    /\ frame.question = In_exit_nbsp

\* C4: while db_connected is false no step starts the pipeline or adds an entry
\* to the chat history, and the form is not on the page.
C4_BlockedWhileDisconnected ==
    [][~DbConnected =>
          /\ IsPrefix(ChatHistory', ChatHistory)
          /\ pc' \notin {"retrieve", "llm", "respond", "respond_wait"}
          /\ trace' = <<>>
          /\ (~DbConnected' => ~form_rendered')]_vars

\* C4, witness: a sample question was stored while db_connected was true (the first
\* run had connected and was ended before it stored `initialized`), the run that
\* followed initialized again and failed, and the session stopped at the gate, not
\* connected, with the sample question still stored and no entry in the chat.
C4_Witness ==
    /\ ~DbConnected
    /\ Has(session_state, "initialized")
    /\ Has(session_state, "selected_question")
    /\ retry_rendered /\ ~form_rendered
    /\ pc = "idle"
    /\ "system_not_ready" \in emitted
    /\ ChatHistory = <<>>

\* C5: "Retry Connection" makes the next script run call initialize_database
\* again, so a server that has come up gets the session out of the not-ready state.
C5_RetryReinitializes ==
    [][RetryConnection =>
          /\ init_calls' = 1
          /\ (db_reachable /\ Getenv(environ, "OPENAI_API_KEY", "") # "" =>
                  pc' = "connect" \/ DbConnected')]_vars

\* C6: with no OPENAI_API_KEY in the environment, initialization fails: no
\* handles, db_connected false, the session not ready.
C6_MissingKeyFailsInit ==
    (Has(session_state, "initialized") /\ ~Has(environ, "OPENAI_API_KEY")) =>
        /\ ~DbConnected
        /\ ~form_rendered
        /\ session_state["llm"] = None
        /\ session_state["db"] = None
        /\ session_state["db_chain"] = None

\* C7 as stated: retrieve_from_db never raises and on a chain failure returns
\* "Error retrieving data: <cause>"; the Answer appended for such a question is
\* non-empty whether the model call succeeds or fails, and on failure it is the
\* apology embedding the cause.
C7_ErrorAnswerNonEmpty ==
    /\ (frame.retrieved => pc = "llm" \/ frame.llm_called)
    /\ (frame.retrieved /\ frame.chain_failed) =>
           (frame.llm_called => frame.llm_context = ErrorRetrievingData \o frame.chain_cause)
    /\ (frame.chain_failed /\ trace = FullPipeline) =>
           /\ AnswerAppended
           /\ frame.response # <<>>
           /\ (frame.llm_failed => frame.response = SorryPrefix \o frame.llm_cause)

\* C7 as amended: retrieve_from_db never raises and on a chain failure returns
\* "Error retrieving data: <cause>", which is the context the model call gets; the
\* Answer appended is the non-empty apology embedding the cause when the model
\* call fails, and the model's completion as it came when the call succeeds.
C7_ErrorAnswerVerbatim ==
    /\ (frame.retrieved => pc = "llm" \/ frame.llm_called)
    /\ (frame.retrieved /\ frame.chain_failed) =>
           /\ (pc = "llm" => frame.db_context = ErrorRetrievingData \o frame.chain_cause)
           /\ (frame.llm_called =>
                  frame.llm_context = ErrorRetrievingData \o frame.chain_cause)
    /\ (frame.chain_failed /\ trace = FullPipeline) =>
           /\ AnswerAppended
           /\ (frame.llm_failed =>
                  /\ frame.response = SorryPrefix \o frame.llm_cause
                  /\ frame.response # <<>>)
           /\ (~frame.llm_failed => frame.response \in Completions)

\* C7, witness: the chain failed, the model call failed too, and the apology
\* with the cause is the assistant entry.
C7_Witness ==
    /\ last_event = "return"
    /\ returned = "True"
    /\ frame.chain_failed /\ frame.chain_cause = Cause_timeout
    /\ frame.llm_failed
    /\ ChatHistory[Len(ChatHistory)] = <<"Bot", SorryPrefix \o Cause_timeout>>

\* C8: every question runs user append, Translator once, Synthesizer at most once
\* and after the Translator (with the Translator's text, error or not, as its
\* context), assistant append, in this order and with no stage run twice; no
\* question is accepted while one is in flight.
C8_PipelineOrder ==
    /\ IsPrefix(trace, FullPipeline)
    /\ (pc = "retrieve" => trace = SubSeq(FullPipeline, 1, 1))
    /\ (pc = "llm" => trace = SubSeq(FullPipeline, 1, 2))
    /\ (pc = "respond" => trace = SubSeq(FullPipeline, 1, 3))
    /\ (pc = "respond_wait" => trace = FullPipeline)
    /\ (frame.llm_called => frame.llm_context = frame.db_context)
    /\ (CallEnded => trace = FullPipeline)

\* C9: in every step but Clear Chat History the old chat history is a prefix of
\* the new one; Clear Chat History empties it.
C9_AppendOnly ==
    [][/\ ClearChatHistory => ChatHistory' = <<>>
       /\ ~ClearChatHistory => IsPrefix(ChatHistory, ChatHistory')]_vars

\* C9, witness: the failure branch was taken and the entries are all still there.
C9_Witness ==
    /\ last_event = "respond"
    /\ returned = "False"
    /\ Len(ChatHistory) >= 3
    /\ ~Has(session_state, "selected_question")

\* C10: an exit phrase leaves the session as it was (but for the prefilled sample,
\* which the form handler drops), returns True, and the form stays on the page; a
\* question sent after exit phrases is taken as in a fresh session: its user entry
\* is appended and, the progress bar working, the pipeline starts.
C10_ExitNotAbsorbing ==
    [][/\ \A text \in ExitInputs :
              (pc = "idle" /\ frame'.question = text /\ Submit(text)) =>
                  /\ Del(session_state', "selected_question")
                         = Del(session_state, "selected_question")
                  /\ returned' = "True"
                  /\ pc' = "idle"
                  /\ form_rendered'
       /\ \A text \in QuestionInputs :
              (last_event = "submit_exit" /\ pc = "idle" /\ frame'.question = text /\ Submit(text)) =>
                  /\ ChatHistory' = Append(ChatHistory, <<"You", text>>)
                  /\ trace' = <<"user_append">>
                  /\ (returned' # "raised" => pc' = "retrieve")
                  /\ (returned' = "raised" => pc' = "idle")]_vars

\* C10, witness: after an exit phrase a question went through the pipeline and
\* got its assistant entry.
C10_Witness ==
    /\ frame.after_exit
    /\ last_event = "return"
    /\ returned = "True"
    /\ trace = FullPipeline
    /\ AnswerAppended
=============================================================================
